---------------------------- MODULE Spec2Model ----------------------------
(***************************************************************************)
(* A model of the mentatctl Rust agent template                            *)
(* (cli/mentatctl/templates/rust/src/main.rs): one run of `main`, from     *)
(* reading standard input to process termination.                          *)
(*                                                                         *)
(* Strings are sequences of characters; a character is a one-element       *)
(* token.  One element, LONG_WORD, stands for a run of LongWordLen letters *)
(* h: every operation treats it as it treats a run of letters, and it      *)
(* brings documents of the size of the stdout buffer within reach.  The   *)
(* character universe is small but holds every class the code             *)
(* distinguishes: JSON structure, JSON whitespace, Unicode whitespace that  *)
(* is not JSON whitespace, control characters, letters, and a byte that is *)
(* not valid UTF-8.  It holds no digit, no '-' and no '[': the decoder is  *)
(* modelled for JSON built from objects, strings and literals.             *)
(*                                                                         *)
(* Environment: standard input delivers the bytes of `stdin`;              *)
(* read_to_string fails exactly when they are not UTF-8.  Standard output  *)
(* is either writable or a device that accepts nothing (`stdout_full`, as  *)
(* /dev/full).  print! of a document shorter than the stream's buffer      *)
(* fills the buffer, and the flush that follows fails on such a device; a  *)
(* document of the buffer's size or more is written through by print!,     *)
(* which panics on such a device.  Standard error is writable.             *)
(*                                                                         *)
(* The parsed document is logged with serde_json::to_string(&data), which  *)
(* needs Serialize for InputData; the struct derives Deserialize only, so  *)
(* the encoding of an InputData (SerializeInputData) is the one the        *)
(* specification describes, a re-encoding of the parsed document, as the   *)
(* derive of Serialize produces it.                                        *)
(***************************************************************************)
EXTENDS Integers, Sequences, FiniteSets

VARIABLES
    stdin,          \* the bytes on standard input (fixed for the run)
    stdout_full,    \* standard output accepts no byte (fixed for the run)
    pc,             \* position of main
    input_buffer,   \* main: input_buffer
    input_data,     \* main: input_data (decoded InputData)
    parse_err,      \* main: `e` of the Err arm of the parse match
    elapsed_us,     \* process_request: start_time.elapsed(), in microseconds
    output_data,    \* main: output_data
    stdout_buf,     \* documents print!-ed and still in the stdout buffer
    stdout,         \* documents flushed to standard output
    stderr,         \* lines written to standard error
    exit_code,      \* process exit status once terminated
    decoded,        \* history: serde_json::from_str has been called
    processed       \* history: process_request has been called

vars == <<stdin, stdout_full, pc, input_buffer, input_data, parse_err,
          elapsed_us, output_data, stdout_buf, stdout, stderr, exit_code,
          decoded, processed>>

----------------------------------------------------------------------------
(* Characters *)

QUOTE == "\""
BACKSLASH == "\\"
SPACE == " "
LF == "\n"
TAB == "\t"
CR == "\r"
FORMFEED == "\f"
BACKSPACE == "<U+0008>"
\* U+00A0 NO-BREAK SPACE: White_Space for Rust, not whitespace for JSON.
NBSP == "<U+00A0>"
\* A byte that is not valid UTF-8.
BAD_BYTE == "<0xFF>"
\* The number of letters of LONG_WORD.
LongWordLen == 911

\* A run of LongWordLen letters h, as one element of a string.
LONG_WORD == "<h x LongWordLen>"
\* End of input, as seen by the decoder's peek.
EOF == "<EOF>"

\* The value absent from an Option / an unset local.
None == [some |-> FALSE]

Some(v) == [some |-> TRUE, v |-> v]

\* char::is_whitespace (Unicode White_Space), used by str::trim and
\* str::split_whitespace.
IsWhitespace(c) == c \in {SPACE, LF, TAB, CR, FORMFEED, NBSP}

\* serde_json's parse_whitespace: ' ', '\n', '\t', '\r' only.
IsJsonWhitespace(c) == c \in {SPACE, LF, TAB, CR}

\* Characters below U+0020, rejected raw inside a JSON string.
IsControl(c) == c \in {LF, TAB, CR, FORMFEED, BACKSPACE}

At(s, i) == IF i >= 1 /\ i <= Len(s) THEN s[i] ELSE EOF

----------------------------------------------------------------------------
(* str::trim, str::split_whitespace *)

RECURSIVE TrimStart(_)
TrimStart(s) ==
    IF s # <<>> /\ IsWhitespace(Head(s)) THEN TrimStart(Tail(s)) ELSE s

RECURSIVE TrimEnd(_)
TrimEnd(s) ==
    IF s # <<>> /\ IsWhitespace(s[Len(s)])
    THEN TrimEnd(SubSeq(s, 1, Len(s) - 1))
    ELSE s

\* Variant of trim that strips only U+0020, as trim_matches(' ') would.
RECURSIVE TrimSpacesOnly(_)
TrimSpacesOnly(s) ==
    IF s # <<>> /\ Head(s) = SPACE THEN TrimSpacesOnly(Tail(s))
    ELSE IF s # <<>> /\ s[Len(s)] = SPACE
         THEN TrimSpacesOnly(SubSeq(s, 1, Len(s) - 1))
         ELSE s

trim(s) == TrimEnd(TrimStart(s))

\* The tokens str::split_whitespace yields: the maximal runs of
\* non-whitespace characters, in order.  `cur` is the run being collected.
RECURSIVE SplitFrom(_, _, _)
SplitFrom(s, i, cur) ==
    IF i > Len(s)
    THEN IF cur = <<>> THEN <<>> ELSE <<cur>>
    ELSE IF IsWhitespace(s[i])
         THEN IF cur = <<>>
              THEN SplitFrom(s, i + 1, <<>>)
              ELSE <<cur>> \o SplitFrom(s, i + 1, <<>>)
         ELSE SplitFrom(s, i + 1, Append(cur, s[i]))

\* Variant of split_whitespace that separates on U+0020 only, as
\* split(' ') without its empty pieces would.
RECURSIVE SplitOnSpaceOnly(_, _, _)
SplitOnSpaceOnly(s, i, cur) ==
    IF i > Len(s)
    THEN IF cur = <<>> THEN <<>> ELSE <<cur>>
    ELSE IF s[i] = SPACE
         THEN IF cur = <<>>
              THEN SplitOnSpaceOnly(s, i + 1, <<>>)
              ELSE <<cur>> \o SplitOnSpaceOnly(s, i + 1, <<>>)
         ELSE SplitOnSpaceOnly(s, i + 1, Append(cur, s[i]))

SplitWhitespaceOnSpaceOnly(s) == SplitOnSpaceOnly(s, 1, <<>>)

split_whitespace(s) == SplitFrom(s, 1, <<>>)

----------------------------------------------------------------------------
(* serde_json::from_str::<InputData> *)

Ok(v, pos) == [ok |-> TRUE, val |-> v, pos |-> pos]

Err(code) == [ok |-> FALSE, err |-> code]

RECURSIVE SkipWs(_, _)
SkipWs(s, i) ==
    IF i <= Len(s) /\ IsJsonWhitespace(s[i]) THEN SkipWs(s, i + 1) ELSE i

\* parse_ident: the characters after the first one of a literal.
RECURSIVE ParseIdent(_, _, _)
ParseIdent(s, i, ident) ==
    IF ident = <<>> THEN Ok(None, i)
    ELSE IF At(s, i) = EOF THEN Err("EofWhileParsingValue")
    ELSE IF At(s, i) # Head(ident) THEN Err("ExpectedSomeIdent")
    ELSE ParseIdent(s, i + 1, Tail(ident))

\* The value of a hexadecimal digit, 16 for any other character.  Of the
\* hexadecimal digits the universe holds the letters only.
HexValue(c) ==
    CASE c \in {"a", "A"} -> 10
      [] c \in {"b", "B"} -> 11
      [] c \in {"c", "C"} -> 12
      [] c \in {"d", "D"} -> 13
      [] c \in {"e", "E"} -> 14
      [] c \in {"f", "F"} -> 15
      [] OTHER -> 16

IsHex(c) == HexValue(c) < 16

HEXDIGITS ==
    <<"0", "1", "2", "3", "4", "5", "6", "7", "8", "9",
      "A", "B", "C", "D", "E", "F">>

RECURSIVE Hex(_)
Hex(n) ==
    IF n < 16 THEN HEXDIGITS[n + 1]
    ELSE Hex(n \div 16) \o HEXDIGITS[(n % 16) + 1]

\* The character with code point n.  Every escape the universe can spell
\* is U+AAAA or above: none is whitespace, a control or a JSON delimiter.
CharOf(n) == "<U+" \o Hex(n) \o ">"

\* The length of a character's UTF-8 encoding.  Of the characters standard
\* input can hold, U+00A0 alone is not ASCII; a character decoded from a
\* \u escape (CharOf) is U+AAAA or above, of three bytes up to U+FFFF and
\* of four beyond.
Utf8Len(c) ==
    IF c = LONG_WORD THEN LongWordLen
    ELSE IF Len(c) = 1 \/ c \in {BACKSPACE, BAD_BYTE} THEN 1
    ELSE IF c = NBSP THEN 2
    ELSE IF Len(c) = 8 THEN 3
    ELSE 4

\* The number of bytes of s from position k on.
RECURSIVE BytesFrom(_, _)
BytesFrom(s, k) ==
    IF k > Len(s) THEN 0 ELSE Utf8Len(s[k]) + BytesFrom(s, k + 1)

\* decode_hex_escape: the four bytes from k on, as a number.  With fewer
\* than four bytes left the input has ended; a byte that is no hexadecimal
\* digit, a byte of a longer character included, is an invalid escape.
DecodeHexEscape(s, k) ==
    IF BytesFrom(s, k) < 4 THEN Err("EofWhileParsingString")
    ELSE IF k + 3 <= Len(s) /\ \A d \in 0..3 : IsHex(s[k + d])
         THEN Ok(HexValue(s[k]) * 4096 + HexValue(s[k + 1]) * 256
                 + HexValue(s[k + 2]) * 16 + HexValue(s[k + 3]), k + 4)
         ELSE Err("InvalidEscape")

\* parse_str after the opening quote: the decoded string and the position
\* after the closing quote.  A \u escape is decoded by AfterHexEscape; one
\* that names a leading surrogate (D800..DBFF) must be followed by a \u
\* escape naming a trailing one (DC00..DFFF), read by TrailingSurrogate and
\* AfterTrailingEscape.
RECURSIVE ParseStr(_, _, _), AfterHexEscape(_, _, _),
          TrailingSurrogate(_, _, _, _), AfterTrailingEscape(_, _, _, _)
ParseStr(s, i, acc) ==
    LET c == At(s, i)
        e == At(s, i + 1)
    IN  IF c = EOF THEN Err("EofWhileParsingString")
        ELSE IF c = QUOTE THEN Ok(acc, i + 1)
        ELSE IF c = BACKSLASH THEN
            IF e = EOF THEN Err("EofWhileParsingString")
            ELSE IF e = QUOTE THEN ParseStr(s, i + 2, Append(acc, QUOTE))
            ELSE IF e = BACKSLASH
                 THEN ParseStr(s, i + 2, Append(acc, BACKSLASH))
            ELSE IF e = "n" THEN ParseStr(s, i + 2, Append(acc, LF))
            ELSE IF e = "t" THEN ParseStr(s, i + 2, Append(acc, TAB))
            ELSE IF e = "r" THEN ParseStr(s, i + 2, Append(acc, CR))
            ELSE IF e = "f" THEN ParseStr(s, i + 2, Append(acc, FORMFEED))
            ELSE IF e = "b" THEN ParseStr(s, i + 2, Append(acc, BACKSPACE))
            ELSE IF e = "/" THEN ParseStr(s, i + 2, Append(acc, "/"))
            ELSE IF e = "u"
                 THEN AfterHexEscape(s, DecodeHexEscape(s, i + 2), acc)
            ELSE Err("InvalidEscape")
        ELSE IF IsControl(c) THEN Err("ControlCharacterWhileParsingString")
        ELSE ParseStr(s, i + 1, Append(acc, c))

AfterHexEscape(s, n, acc) ==
    IF ~n.ok THEN n
    ELSE IF n.val \in 56320..57343
         THEN Err("LoneLeadingSurrogateInHexEscape")
    ELSE IF n.val \in 55296..56319
         THEN TrailingSurrogate(s, n.pos, n.val, acc)
    ELSE ParseStr(s, n.pos, Append(acc, CharOf(n.val)))

TrailingSurrogate(s, p, n1, acc) ==
    IF At(s, p) = EOF THEN Err("EofWhileParsingString")
    ELSE IF At(s, p) # BACKSLASH THEN Err("UnexpectedEndOfHexEscape")
    ELSE IF At(s, p + 1) = EOF THEN Err("EofWhileParsingString")
    ELSE IF At(s, p + 1) # "u" THEN Err("UnexpectedEndOfHexEscape")
    ELSE AfterTrailingEscape(s, DecodeHexEscape(s, p + 2), n1, acc)

AfterTrailingEscape(s, n2, n1, acc) ==
    IF ~n2.ok THEN n2
    ELSE IF n2.val \notin 56320..57343
         THEN Err("LoneLeadingSurrogateInHexEscape")
    ELSE ParseStr(s, n2.pos,
                  Append(acc, CharOf((n1 - 55296) * 1024 + (n2.val - 56320)
                                     + 65536)))

\* ignore_str after the opening quote: a string that is skipped.  Escapes
\* are checked for form only (ignore_escape): a \u escape needs four
\* hexadecimal digits and nothing more.
RECURSIVE IgnoreStr(_, _), IgnoreAfterHexEscape(_, _)
IgnoreStr(s, i) ==
    LET c == At(s, i)
        e == At(s, i + 1)
    IN  IF c = EOF THEN Err("EofWhileParsingString")
        ELSE IF c = QUOTE THEN Ok(None, i + 1)
        ELSE IF c = BACKSLASH THEN
            IF e = EOF THEN Err("EofWhileParsingString")
            ELSE IF e \in {QUOTE, BACKSLASH, "/", "b", "f", "n", "r", "t"}
                 THEN IgnoreStr(s, i + 2)
            ELSE IF e = "u"
                 THEN IgnoreAfterHexEscape(s, DecodeHexEscape(s, i + 2))
            ELSE Err("InvalidEscape")
        ELSE IF IsControl(c) THEN Err("ControlCharacterWhileParsingString")
        ELSE IgnoreStr(s, i + 1)

IgnoreAfterHexEscape(s, n) == IF n.ok THEN IgnoreStr(s, n.pos) ELSE n

\* A value of the wrong JSON type, once it has been read: the read's own
\* error if it failed, the invalid-type error otherwise.
InvalidTypeAfter(r) == IF r.ok THEN Err("InvalidType") ELSE r

\* peek_invalid_type: the error for a value of the wrong JSON type, with
\* the value starting at j.
PeekInvalidType(s, j) ==
    CASE At(s, j) = "n" ->
            InvalidTypeAfter(ParseIdent(s, j + 1, <<"u", "l", "l">>))
      [] At(s, j) = "t" ->
            InvalidTypeAfter(ParseIdent(s, j + 1, <<"r", "u", "e">>))
      [] At(s, j) = "f" ->
            InvalidTypeAfter(ParseIdent(s, j + 1, <<"a", "l", "s", "e">>))
      [] At(s, j) = QUOTE -> InvalidTypeAfter(ParseStr(s, j + 1, <<>>))
      [] At(s, j) = "{" -> Err("InvalidType")
      [] OTHER -> Err("ExpectedSomeValue")

\* ignore_value, for the value of a key other than `text`.  `depth` is the
\* number of enclosing objects.  The operators are the parts of its loop:
\* a value (IgnoreValue, IgnoreValueAt with the whitespace skipped), what
\* follows a scalar (IgnoreAfter), the close/comma loop (IgnoreClose,
\* IgnoreCloseAt), a key with its colon (IgnoreKey, IgnoreKeyAt,
\* IgnoreColon, IgnoreColonAt).
RECURSIVE IgnoreValue(_, _, _), IgnoreValueAt(_, _, _), IgnoreAfter(_, _, _),
          IgnoreClose(_, _, _, _), IgnoreCloseAt(_, _, _, _),
          IgnoreKey(_, _, _), IgnoreKeyAt(_, _, _), IgnoreColon(_, _, _),
          IgnoreColonAt(_, _, _)
IgnoreValue(s, i, depth) == IgnoreValueAt(s, SkipWs(s, i), depth)

IgnoreValueAt(s, j, depth) ==
    CASE At(s, j) = EOF -> Err("EofWhileParsingValue")
      [] At(s, j) = "n" ->
            IgnoreAfter(s, ParseIdent(s, j + 1, <<"u", "l", "l">>), depth)
      [] At(s, j) = "t" ->
            IgnoreAfter(s, ParseIdent(s, j + 1, <<"r", "u", "e">>), depth)
      [] At(s, j) = "f" ->
            IgnoreAfter(s, ParseIdent(s, j + 1, <<"a", "l", "s", "e">>),
                        depth)
      [] At(s, j) = QUOTE -> IgnoreAfter(s, IgnoreStr(s, j + 1), depth)
      [] At(s, j) = "{" -> IgnoreClose(s, j + 1, depth + 1, FALSE)
      [] OTHER -> Err("ExpectedSomeValue")

IgnoreAfter(s, r, depth) ==
    IF ~r.ok THEN r
    ELSE IF depth = 0 THEN Ok(None, r.pos)
    ELSE IgnoreClose(s, r.pos, depth, TRUE)

IgnoreClose(s, i, depth, accept_comma) ==
    IgnoreCloseAt(s, SkipWs(s, i), depth, accept_comma)

IgnoreCloseAt(s, j, depth, accept_comma) ==
    IF At(s, j) = EOF THEN Err("EofWhileParsingObject")
    ELSE IF At(s, j) = "," /\ accept_comma THEN IgnoreKey(s, j + 1, depth)
    ELSE IF At(s, j) = "}" THEN
        IF depth = 1 THEN Ok(None, j + 1)
        ELSE IgnoreClose(s, j + 1, depth - 1, TRUE)
    ELSE IF accept_comma THEN Err("ExpectedObjectCommaOrEnd")
    ELSE IgnoreKey(s, j, depth)

IgnoreKey(s, i, depth) == IgnoreKeyAt(s, SkipWs(s, i), depth)

IgnoreKeyAt(s, j, depth) ==
    IF At(s, j) = EOF THEN Err("EofWhileParsingObject")
    ELSE IF At(s, j) # QUOTE THEN Err("KeyMustBeAString")
    ELSE IgnoreColon(s, IgnoreStr(s, j + 1), depth)

IgnoreColon(s, key, depth) ==
    IF ~key.ok THEN key ELSE IgnoreColonAt(s, SkipWs(s, key.pos), depth)

IgnoreColonAt(s, m, depth) ==
    IF At(s, m) = EOF THEN Err("EofWhileParsingObject")
    ELSE IF At(s, m) # ":" THEN Err("ExpectedColon")
    ELSE IgnoreValue(s, m + 1, depth)

\* The Option read by visit_none / visit_some.
NoneAfter(r) == IF r.ok THEN Ok(None, r.pos) ELSE r

SomeAfter(r) == IF r.ok THEN Ok(Some(r.val), r.pos) ELSE r

\* Deserialize for Option<String>, with the value starting at j: null is
\* None, a string is Some.
DeserializeOptionStringAt(s, j) ==
    CASE At(s, j) = "n" -> NoneAfter(ParseIdent(s, j + 1, <<"u", "l", "l">>))
      [] At(s, j) = EOF -> Err("EofWhileParsingValue")
      [] At(s, j) = QUOTE -> SomeAfter(ParseStr(s, j + 1, <<>>))
      [] OTHER -> PeekInvalidType(s, j)

DeserializeOptionString(s, i) == DeserializeOptionStringAt(s, SkipWs(s, i))

TEXT_KEY == <<"t", "e", "x", "t">>

\* The derived visit_map of InputData over serde_json's MapAccess: `first`
\* is MapAccess.first, `text` the visitor's Option<Option<String>>.  The
\* operators are the steps of one turn of its loop: next_key_seed up to the
\* key (VisitMap, VisitMapAt, VisitKeyAt), the duplicate check and the colon
\* (VisitField, VisitColonAt), the value and the next turn (VisitNext).
RECURSIVE VisitMap(_, _, _, _), VisitMapAt(_, _, _, _), VisitKeyAt(_, _, _),
          VisitField(_, _, _), VisitColonAt(_, _, _, _),
          VisitNext(_, _, _, _)
VisitMap(s, i, first, text) == VisitMapAt(s, SkipWs(s, i), first, text)

VisitMapAt(s, j, first, text) ==
    IF At(s, j) = "}" THEN
        \* a missing Option field is None
        Ok([text |-> IF text.some THEN text.v ELSE None], j + 1)
    ELSE IF At(s, j) = EOF THEN Err("EofWhileParsingObject")
    ELSE IF ~first /\ At(s, j) # "," THEN Err("ExpectedObjectCommaOrEnd")
    ELSE IF first THEN VisitKeyAt(s, j, text)
    ELSE VisitKeyAt(s, SkipWs(s, j + 1), text)

VisitKeyAt(s, k, text) ==
    IF At(s, k) = QUOTE THEN VisitField(s, ParseStr(s, k + 1, <<>>), text)
    ELSE IF At(s, k) = "}" THEN Err("TrailingComma")
    ELSE IF At(s, k) = EOF THEN Err("EofWhileParsingValue")
    ELSE Err("KeyMustBeAString")

VisitField(s, key, text) ==
    IF ~key.ok THEN key
    ELSE IF key.val = TEXT_KEY /\ text.some THEN Err("DuplicateField")
    ELSE VisitColonAt(s, SkipWs(s, key.pos), key.val = TEXT_KEY, text)

VisitColonAt(s, m, is_text, text) ==
    IF At(s, m) = EOF THEN Err("EofWhileParsingObject")
    ELSE IF At(s, m) # ":" THEN Err("ExpectedColon")
    ELSE IF is_text
         THEN VisitNext(s, DeserializeOptionString(s, m + 1), TRUE, text)
         ELSE VisitNext(s, IgnoreValue(s, m + 1, 0), FALSE, text)

VisitNext(s, v, is_text, text) ==
    IF ~v.ok THEN v
    ELSE VisitMap(s, v.pos, FALSE, IF is_text THEN Some(v.val) ELSE text)

\* deserialize_struct, with the value starting at j.
DeserializeStructAt(s, j) ==
    IF At(s, j) = EOF THEN Err("EofWhileParsingValue")
    ELSE IF At(s, j) = "{" THEN VisitMap(s, j + 1, TRUE, None)
    ELSE PeekInvalidType(s, j)

\* Deserializer::end: only whitespace may follow the value.
End(s, r) ==
    IF ~r.ok THEN r
    ELSE IF At(s, SkipWs(s, r.pos)) # EOF THEN Err("TrailingCharacters")
    ELSE r

\* serde_json::from_str::<InputData>
from_str(s) == End(s, DeserializeStructAt(s, SkipWs(s, 1)))

----------------------------------------------------------------------------
(* The data structures and their JSON encoding *)

\* The model identifier baked into the template.
AGENT_ID == "{{AGENT_ID}}"

\* JSON values.  An object is the sequence of its <<key, value>> members in
\* the order serde writes the struct's fields.
JNull == [t |-> "null"]

JNum(n) == [t |-> "number", v |-> n]

JStr(s) == [t |-> "string", v |-> s]

JObj(members) == [t |-> "object", v |-> members]

\* Serialize for Option<T>: None is null, Some(v) is the encoding of v.
JOptionNum(opt) == IF opt.some THEN JNum(opt.v) ELSE JNull

JOptionStr(opt) == IF opt.some THEN JStr(opt.v) ELSE JNull

\* #[derive(Serialize)] struct MentatMeta
SerializeMeta(m) ==
    JObj(<< <<"tokens_input", JOptionNum(m.tokens_input)>>,
            <<"tokens_output", JOptionNum(m.tokens_output)>>,
            <<"seconds", JOptionNum(m.seconds)>>,
            <<"model", JStr(m.model)>> >>)

\* #[derive(Serialize)] struct OutputData
SerializeOutputData(o) ==
    JObj(<< <<"result", JStr(o.result)>>,
            <<"mentat_meta", SerializeMeta(o.mentat_meta)>> >>)

\* #[derive(Serialize)] struct ErrorResponse
SerializeErrorResponse(r) ==
    JObj(<< <<"error", JStr(r.error)>>,
            <<"mentat_meta", SerializeMeta(r.mentat_meta)>> >>)

\* The re-encoding of the decoded InputData logged by main.
SerializeInputData(d) == JObj(<< <<"text", JOptionStr(d.text)>> >>)

----------------------------------------------------------------------------
(* process_request, create_error_response *)

\* Variant of unwrap_or_default that renders an absent text as "null".
UnwrapOrNullText(opt) == IF opt.some THEN opt.v ELSE <<"n", "u", "l", "l">>

\* Option::unwrap_or_default on Option<String>
unwrap_or_default(opt) == IF opt.some THEN opt.v ELSE <<>>

\* format!("Processed: {}", input_text)
PROCESSED_PREFIX == <<"P", "r", "o", "c", "e", "s", "s", "e", "d", ":", " ">>

Transform(input_text) == PROCESSED_PREFIX \o input_text

\* Variant of the token count that counts the pieces of split(' ').
TokenCountSplitOnSpace(s) ==
    IF s = <<>> THEN Some(0)
    ELSE Some(1 + Cardinality({i \in 1..Len(s) : s[i] = SPACE}))

\* if s.is_empty() { Some(0) } else { Some(s.split_whitespace().count()) }
TokenCount(s) == IF s = <<>> THEN Some(0) ELSE Some(Len(split_whitespace(s)))

\* (processing_time * 1000.0).round() / 1000.0, in thousandths of a second,
\* for an elapsed time below one second.  f64::round rounds half away from
\* zero, and the elapsed time is >= 0.  processing_time is as_secs_f64() of
\* the elapsed Duration: the f64 nearest to the time.  For the times
\* 0.5005 s, 0.5015 s, ..., 0.5115 s its product with 1000.0 is the f64
\* just below the half, and these round down; for every other time the
\* product is on the side of the half where the exact value is.
RoundedSeconds(us) ==
    IF us % 1000 = 500 /\ us \div 1000 \in 500..511
    THEN Some(us \div 1000)
    ELSE Some((us + 500) \div 1000)

process_request(data, us) ==
    LET input_text == unwrap_or_default(data.text)
        result == Transform(input_text)
    IN  [result |-> result,
         mentat_meta |->
            [tokens_input |-> TokenCount(input_text),
             tokens_output |-> TokenCount(result),
             seconds |-> RoundedSeconds(us),
             model |-> AGENT_ID]]

\* Variant of create_error_response that reports zero tokens.
CreateErrorResponseZeroTokens(error_msg) ==
    [error |-> error_msg,
     mentat_meta |->
        [tokens_input |-> Some(0),
         tokens_output |-> None,
         seconds |-> None,
         model |-> AGENT_ID]]

create_error_response(error_msg) ==
    [error |-> error_msg,
     mentat_meta |->
        [tokens_input |-> None,
         tokens_output |-> None,
         seconds |-> None,
         model |-> AGENT_ID]]

----------------------------------------------------------------------------
(* The inputs of a run *)

MaxTextLen == 3

\* Characters of the texts sent in the `text` field.
TextChars == {"h", SPACE, NBSP, LF}

RECURSIVE SeqsUpTo(_, _)
SeqsUpTo(S, n) ==
    IF n = 0 THEN {<<>>}
    ELSE LET shorter == SeqsUpTo(S, n - 1)
         IN  shorter \cup {Append(s, c) : s \in shorter, c \in S}

Texts == SeqsUpTo(TextChars, MaxTextLen)

\* A text as the body of a JSON string literal.
RECURSIVE Escape(_)
Escape(s) ==
    IF s = <<>> THEN <<>>
    ELSE (CASE Head(s) = LF -> <<BACKSLASH, "n">>
            [] Head(s) = TAB -> <<BACKSLASH, "t">>
            [] Head(s) = QUOTE -> <<BACKSLASH, QUOTE>>
            [] Head(s) = BACKSLASH -> <<BACKSLASH, BACKSLASH>>
            [] OTHER -> <<Head(s)>>) \o Escape(Tail(s))

\* {"text":"S"}
TextDocument(S) ==
    <<"{", QUOTE, "t", "e", "x", "t", QUOTE, ":", QUOTE>> \o Escape(S)
        \o <<QUOTE, "}">>

\* Whitespace around the document on standard input.
Paddings == { <<<<>>, <<>>>>, <<<<SPACE>>, <<LF>>>>, <<<<NBSP, LF>>, <<>>>>,
              <<<<>>, <<TAB, NBSP>>>> }

WellFormedInputs ==
    {p[1] \o TextDocument(S) \o p[2] : p \in Paddings, S \in Texts}

\* Zero bytes, and whitespace only.
BlankInputs ==
    { <<>>, <<SPACE>>, <<LF>>, <<NBSP>>, <<SPACE, LF, TAB>>, <<CR, LF>>,
      <<NBSP, SPACE, FORMFEED>> }

\* Documents that decode without a text, or with more than the text.
OtherDocuments ==
    { <<"{", "}">>,
      <<"{", SPACE, "}", LF>>,
      <<"{", QUOTE, "t", "e", "x", "t", QUOTE, ":", "n", "u", "l", "l", "}">>,
      <<"{", QUOTE, "x", QUOTE, ":", QUOTE, "h", QUOTE, "}">>,
      <<"{", QUOTE, "x", QUOTE, ":", "{", QUOTE, "t", "e", "x", "t", QUOTE,
        ":", QUOTE, "h", QUOTE, "}", ",", QUOTE, "t", "e", "x", "t", QUOTE,
        ":", QUOTE, "h", SPACE, "h", QUOTE, "}">>,
      <<"{", QUOTE, "t", "e", "x", "t", QUOTE, SPACE, ":", SPACE, QUOTE,
        BACKSLASH, "u", "e", "e", "e", "e", BACKSLASH, "t", "h", QUOTE,
        SPACE, ",", QUOTE, "x", QUOTE, ":", "t", "r", "u", "e", "}">>,
      <<NBSP, "{", QUOTE, "t", "e", "x", "t", QUOTE, ":", QUOTE, "h", NBSP,
        BACKSLASH, QUOTE, QUOTE, "}", NBSP>>,
      <<"{", QUOTE, "t", "e", "x", "t", QUOTE, ":", QUOTE, BACKSLASH, "u",
        "f", "f", "f", "f", QUOTE, "}">>,
      <<"{", QUOTE, "t", "e", "x", "t", QUOTE, ":", QUOTE, BACKSLASH, "u",
        "F", "e", "E", "d", SPACE, BACKSLASH, "u", "d", "a", "a", "a",
        BACKSLASH, "u", "d", "c", "c", "c", QUOTE, "}">>,
      <<"{", QUOTE, "x", QUOTE, ":", QUOTE, BACKSLASH, "u", "d", "d", "d",
        "d", QUOTE, "}">>,
      <<"{", QUOTE, "x", QUOTE, ":", "{", QUOTE, BACKSLASH, "u", "d", "a",
        "a", "a", "h", QUOTE, ":", "n", "u", "l", "l", "}", "}">> }

\* Inputs the decoder rejects.
MalformedInputs ==
    { <<"n", "o", "t", SPACE, "j", "s", "o", "n">>,
      <<"n", "u", "l", "l">>,
      <<QUOTE, "h", QUOTE>>,
      <<"{">>,
      <<"}">>,
      <<"{", ",", "}">>,
      <<"{", QUOTE, "t", "e", "x", "t", QUOTE>>,
      <<"{", QUOTE, "t", "e", "x", "t", QUOTE, "}">>,
      <<"{", QUOTE, "t", "e", "x", "t", QUOTE, ":", "}">>,
      <<"{", QUOTE, "t", "e", "x", "t", QUOTE, ":", QUOTE, "h">>,
      <<"{", QUOTE, "t", "e", "x", "t", QUOTE, ":", QUOTE, "h", QUOTE>>,
      <<"{", QUOTE, "t", "e", "x", "t", QUOTE, ":", QUOTE, "h", QUOTE, ",",
        "}">>,
      <<"{", QUOTE, "t", "e", "x", "t", QUOTE, ":", QUOTE, "h", QUOTE, "}",
        SPACE, "x">>,
      <<"{", QUOTE, "t", "e", "x", "t", QUOTE, ":", QUOTE, "h", QUOTE, "}",
        "{", "}">>,
      <<"{", QUOTE, "t", "e", "x", "t", QUOTE, ":", "{", "}", "}">>,
      <<"{", QUOTE, "t", "e", "x", "t", QUOTE, ":", "t", "r", "u", "e", "}">>,
      <<"{", QUOTE, "t", "e", "x", "t", QUOTE, ":", "n", "u", "}">>,
      <<"{", QUOTE, "t", "e", "x", "t", QUOTE, ":", QUOTE, "h", LF, QUOTE,
        "}">>,
      <<"{", QUOTE, "t", "e", "x", "t", QUOTE, ":", QUOTE, BACKSLASH, "x",
        QUOTE, "}">>,
      <<"{", QUOTE, "t", "e", "x", "t", QUOTE, ":", QUOTE, BACKSLASH, "u",
        "e", "e", QUOTE, "}">>,
      <<"{", QUOTE, "t", "e", "x", "t", QUOTE, ":", QUOTE, "h", QUOTE, ",",
        QUOTE, "t", "e", "x", "t", QUOTE, ":", QUOTE, "h", QUOTE, "}">>,
      <<"{", QUOTE, "t", "e", "x", "t", QUOTE, ":", QUOTE, "h", QUOTE,
        QUOTE, "x", QUOTE, ":", "n", "u", "l", "l", "}">>,
      <<"{", QUOTE, "x", QUOTE, ":", "{", QUOTE, "h", QUOTE, "}", "}">>,
      <<"{", QUOTE, "x", QUOTE, ":", "{", "}", "h", "}">>,
      <<"{", "t", "e", "x", "t", ":", QUOTE, "h", QUOTE, "}">>,
      <<"{", NBSP, "}">>,
      <<"{", QUOTE, "t", "e", "x", "t", QUOTE, ":", QUOTE, BACKSLASH, "u",
        "d", "d", "d", "d", QUOTE, "}">>,
      <<"{", QUOTE, "t", "e", "x", "t", QUOTE, ":", QUOTE, BACKSLASH, "u",
        "d", "a", "a", "a", "h", QUOTE, "}">>,
      <<"{", QUOTE, "t", "e", "x", "t", QUOTE, ":", QUOTE, BACKSLASH, "u",
        "d", "a", "a", "a", BACKSLASH, "u", "b", "b", "b", "b", QUOTE, "}">>,
      <<"{", QUOTE, "x", QUOTE, ":", QUOTE, BACKSLASH, "u", "e", "e", "g",
        "e", QUOTE, "}">>,
      <<"{", QUOTE, "x", QUOTE, ":", QUOTE, BACKSLASH, "u", "e", "e",
        QUOTE>>,
      <<"{", QUOTE, "t", "e", "x", "t", QUOTE, ":", QUOTE, BACKSLASH, "u",
        NBSP, QUOTE, "}">>,
      <<"{", QUOTE, "x", QUOTE, ":", QUOTE, BACKSLASH, "u", "e", NBSP,
        QUOTE>>,
      <<"{", QUOTE, "t", "e", "x", "t", QUOTE, ":", QUOTE, BACKSLASH, "u",
        "d", "a", "a", "a", BACKSLASH, "u", NBSP, NBSP>>,
      <<"{", QUOTE, "t", "e", "x", "t", QUOTE, ":", QUOTE, BACKSLASH, "u",
        "e", NBSP>> }

\* Byte sequences that are not UTF-8.
NonUtf8Inputs ==
    { <<BAD_BYTE>>,
      <<SPACE, BAD_BYTE>>,
      <<"{", QUOTE, "t", "e", "x", "t", QUOTE, ":", QUOTE, BAD_BYTE, QUOTE,
        "}">> }

\* Inputs with a long word: a text and a document that is a string.
LongInputs ==
    { TextDocument(<<LONG_WORD>>),
      TextDocument(<<LONG_WORD, SPACE, "h">>),
      <<QUOTE, LONG_WORD, QUOTE>>,
      <<QUOTE, LONG_WORD, QUOTE, SPACE, "{", "}">> }

StdinInputs ==
    WellFormedInputs \cup BlankInputs \cup OtherDocuments
        \cup MalformedInputs \cup NonUtf8Inputs \cup LongInputs

\* Elapsed times of the transformation, in microseconds.
ElapsedChoices == {0, 499, 500, 1500, 500500, 512500}

----------------------------------------------------------------------------
(* The length of the documents, in bytes *)

\* The capacity of the buffer of std's stdout (a LineWriter).
STDOUT_CAPACITY == 1024

RECURSIVE Digits(_)
Digits(n) == IF n < 10 THEN 1 ELSE 1 + Digits(n \div 10)

\* serde_json's format_escaped_str: the bytes of one character inside a
\* JSON string.  '"', '\\' and the controls the universe holds are written
\* as two-character escapes, every other character as it is.
JsonCharBytes(c) ==
    IF c \in {QUOTE, BACKSLASH, LF, TAB, CR, FORMFEED, BACKSPACE} THEN 2
    ELSE Utf8Len(c)

RECURSIVE JsonStrBytes(_, _)
JsonStrBytes(s, k) ==
    IF k > Len(s) THEN 0 ELSE JsonCharBytes(s[k]) + JsonStrBytes(s, k + 1)

\* The digits after the point of a number of thousandths, as the shortest
\* decimal that reads back as the same f64 (at least one digit).
FractionDigits(f) == IF f % 100 = 0 THEN 1 ELSE IF f % 10 = 0 THEN 2 ELSE 3

\* serde_json's encoding of `seconds`, given in thousandths: 0.0, 0.001,
\* 0.5, ...
SecondsBytes(n) == Digits(n \div 1000) + 1 + FractionDigits(n % 1000)

\* The encodings of OutputData and ErrorResponse without the strings and
\* numbers of the fields.
SUCCESS_FRAME ==
    "{\"result\":\"\",\"mentat_meta\":{\"tokens_input\":,\"tokens_output\":,\"seconds\":,\"model\":\"\"}}"

ERROR_FRAME ==
    "{\"error\":\"\",\"mentat_meta\":{\"tokens_input\":null,\"tokens_output\":null,\"seconds\":null,\"model\":\"\"}}"

\* A length known between two limits; Exactly(n) is a known length.
Between(lo, hi) == [lo |-> lo, hi |-> hi]

Exactly(n) == Between(n, n)

\* The length of serde_json::to_string(&output_data).
SuccessDocumentBytes(o) ==
    Exactly(Len(SUCCESS_FRAME) + Len(AGENT_ID) + JsonStrBytes(o.result, 1)
            + Digits(o.mentat_meta.tokens_input.v)
            + Digits(o.mentat_meta.tokens_output.v)
            + SecondsBytes(o.mentat_meta.seconds.v))

\* The length of the ErrorDocument with a message of the given length.
ErrorDocumentBytes(message) ==
    Between(Len(ERROR_FRAME) + Len(AGENT_ID) + message.lo,
            Len(ERROR_FRAME) + Len(AGENT_ID) + message.hi)

\* The bytes of one character of a string in the decoder's description
\* "invalid type: string ..., expected ...", inside the ErrorDocument: the
\* string is written with {:?} (str's Debug) and the description is then
\* escaped as a JSON string.  Debug writes '"' and '\\' with a backslash,
\* LF, TAB and CR as \n, \t and \r, and a character that is not printable
\* as \u{...}: U+000C, U+0008, U+00A0.  Whether a character decoded from a
\* \u escape is printable is Unicode's matter, left open: it takes its
\* UTF-8 bytes at least and its \u{...} form at most.
DebugCharBytes(c) ==
    IF c \in {QUOTE, BACKSLASH} THEN Exactly(4)
    ELSE IF c \in {LF, TAB, CR} THEN Exactly(3)
    ELSE IF c \in {FORMFEED, BACKSPACE} THEN Exactly(6)
    ELSE IF c = NBSP THEN Exactly(7)
    ELSE IF c = LONG_WORD \/ Len(c) = 1 THEN Exactly(Utf8Len(c))
    ELSE Between(Utf8Len(c), Len(c) + 1)

RECURSIVE DebugStrBytesLo(_, _), DebugStrBytesHi(_, _)
DebugStrBytesLo(s, k) ==
    IF k > Len(s) THEN 0
    ELSE DebugCharBytes(s[k]).lo + DebugStrBytesLo(s, k + 1)

DebugStrBytesHi(s, k) ==
    IF k > Len(s) THEN 0
    ELSE DebugCharBytes(s[k]).hi + DebugStrBytesHi(s, k + 1)

\* The description of a document that is a string, around the string, as
\* a JSON string: the position is that of the end of the string, on line 1.
STRING_DESCRIPTION_HEAD == "invalid type: string \\\""

STRING_DESCRIPTION_TAIL ==
    "\\\", expected struct InputData at line 1 column "

\* The longest description that holds nothing of the input, as a JSON
\* string and without its position.
LONGEST_FIXED_DESCRIPTION ==
    "control character (\\\\u0000-\\\\u001F) found while parsing a string"

POSITION_WORDS == " at line  column "

\* The length of the description of the failure to decode s (trimmed, so
\* the document starts s).  When the document is a string, read to r, the
\* description holds the string, and its column is the number of bytes
\* read.  Every other description has one of the decoder's fixed messages
\* and a position: a line and a column within the input.
StringDescriptionBytes(s, r) ==
    Between(Len(STRING_DESCRIPTION_HEAD) + DebugStrBytesLo(r.val, 1)
                + Len(STRING_DESCRIPTION_TAIL)
                + Digits(BytesFrom(s, 1) - BytesFrom(s, r.pos)),
            Len(STRING_DESCRIPTION_HEAD) + DebugStrBytesHi(r.val, 1)
                + Len(STRING_DESCRIPTION_TAIL)
                + Digits(BytesFrom(s, 1) - BytesFrom(s, r.pos)))

FixedDescriptionBytes(s) ==
    Between(0, Len(LONGEST_FIXED_DESCRIPTION) + Len(POSITION_WORDS)
                   + 2 * Digits(BytesFrom(s, 1) + 1))

DescriptionBytesAfter(s, r) ==
    IF r.ok THEN StringDescriptionBytes(s, r) ELSE FixedDescriptionBytes(s)

DescriptionBytes(s) ==
    IF At(s, 1) = QUOTE THEN DescriptionBytesAfter(s, ParseStr(s, 2, <<>>))
    ELSE FixedDescriptionBytes(s)

INVALID_JSON_PREFIX == "Invalid JSON input: "

\* The length of format!("Invalid JSON input: {}", e).
InvalidJsonMessageBytes(s) ==
    Between(Len(INVALID_JSON_PREFIX) + DescriptionBytes(s).lo,
            Len(INVALID_JSON_PREFIX) + DescriptionBytes(s).hi)

----------------------------------------------------------------------------
(* main *)

\* A formatted message: the literal part followed by the formatted argument.
Format(literal, arg) == <<literal, arg>>

NO_INPUT_MESSAGE == <<"No input received from stdin">>

\* std::str::from_utf8 over the bytes read.
IsUtf8(bytes) == \A i \in 1..Len(bytes) : bytes[i] # BAD_BYTE

\* The message of the ErrorDocument for an input that does not decode.
InvalidJsonMessage(e) == Format("Invalid JSON input: ", e)

\* Whether print! writes a document of the given length through to the
\* device: one shorter than the buffer is buffered, any other is written
\* through.  (Every print! of main finds the buffer empty, and no document
\* holds a newline.)
ThroughChoices(bytes) ==
    {through \in BOOLEAN :
        IF through THEN bytes.hi >= STDOUT_CAPACITY
        ELSE bytes.lo < STDOUT_CAPACITY}

\* print!("{}", json_output) returns: the document is in the buffer, or
\* has been written through to a device that accepts it.
print(doc, bytes) ==
    \E through \in ThroughChoices(bytes) :
        IF through
        THEN /\ ~stdout_full
             /\ stdout' = Append(stdout, doc)
             /\ UNCHANGED stdout_buf
        ELSE /\ stdout_buf' = Append(stdout_buf, doc)
             /\ UNCHANGED stdout

\* io::stdout().flush() returns Ok: the buffer reaches standard output.
Flush ==
    /\ ~stdout_full
    /\ stdout' = stdout \o stdout_buf
    /\ stdout_buf' = <<>>

\* The error of a write to a device that accepts nothing.
STDOUT_ERROR == "StorageFull"

\* eprintln!(...)
Eprintln(line) == stderr' = Append(stderr, line)

\* The exit status of a process whose main thread panicked.
PANIC_EXIT_CODE == 101

\* print!("{}", json_output) panics: the document is written through and
\* the device accepts nothing.  The runtime reports the panic on standard
\* error and the process exits with status 101.
PrintPanics(bytes) ==
    /\ TRUE \in ThroughChoices(bytes)
    /\ stdout_full
    /\ Eprintln(Format("panicked: failed printing to stdout: ", STDOUT_ERROR))
    /\ exit_code' = Some(PANIC_EXIT_CODE)
    /\ pc' = "done"

\* `?` on an Err, or a final Err: main returns the error, the runtime
\* reports it on standard error and the process exits with status 1.
ReturnErr(e) ==
    /\ Eprintln(Format("Error: ", e))
    /\ exit_code' = Some(1)
    /\ pc' = "done"

Init ==
    /\ stdin \in StdinInputs
    /\ stdout_full \in BOOLEAN
    /\ pc = "read"
    /\ input_buffer = <<>>
    /\ input_data = None
    /\ parse_err = None
    /\ elapsed_us = 0
    /\ output_data = None
    /\ stdout_buf = <<>>
    /\ stdout = <<>>
    /\ stderr = <<>>
    /\ exit_code = None
    /\ decoded = FALSE
    /\ processed = FALSE

\* io::stdin().read_to_string(&mut input_buffer)? succeeds.
ReadOk ==
    /\ pc = "read"
    /\ IsUtf8(stdin)
    /\ input_buffer' = stdin
    /\ pc' = "check"
    /\ UNCHANGED <<stdin, stdout_full, input_data, parse_err, elapsed_us,
                   output_data, stdout_buf, stdout, stderr, exit_code,
                   decoded, processed>>

\* read_to_string fails and `?` returns the error from main.
ReadErr ==
    /\ pc = "read"
    /\ ~IsUtf8(stdin)
    /\ ReturnErr("InvalidData")
    /\ UNCHANGED <<stdin, stdout_full, input_buffer, input_data, parse_err,
                   elapsed_us, output_data, stdout_buf, stdout, decoded,
                   processed>>

\* if input_buffer.trim().is_empty() { ... print!(...)
EmptyInput ==
    /\ pc = "check"
    /\ trim(input_buffer) = <<>>
    /\ print(SerializeErrorResponse(create_error_response(NO_INPUT_MESSAGE)),
             ErrorDocumentBytes(Exactly(Len(NO_INPUT_MESSAGE[1]))))
    /\ pc' = "empty_flush"
    /\ UNCHANGED <<stdin, stdout_full, input_buffer, input_data, parse_err,
                   elapsed_us, output_data, stderr, exit_code, decoded,
                   processed>>

\* ... io::stdout().flush()?
FlushEmpty ==
    /\ pc = "empty_flush"
    /\ Flush
    /\ pc' = "empty_exit"
    /\ UNCHANGED <<stdin, stdout_full, input_buffer, input_data, parse_err,
                   elapsed_us, output_data, stderr, exit_code, decoded,
                   processed>>

\* ... io::stdout().flush()? fails and `?` returns the error from main: the
\* ErrorDocument stays in the buffer, and what follows the flush is not run.
FlushEmptyFails ==
    /\ pc = "empty_flush"
    /\ stdout_full
    /\ ReturnErr(STDOUT_ERROR)
    /\ UNCHANGED <<stdin, stdout_full, input_buffer, input_data, parse_err,
                   elapsed_us, output_data, stdout_buf, stdout, decoded,
                   processed>>

\* ... std::process::exit(1) }
ExitEmpty ==
    /\ pc = "empty_exit"
    /\ exit_code' = Some(1)
    /\ pc' = "done"
    /\ UNCHANGED <<stdin, stdout_full, input_buffer, input_data, parse_err,
                   elapsed_us, output_data, stdout_buf, stdout, stderr,
                   decoded, processed>>

\* match serde_json::from_str(&input_buffer.trim()) { Ok(data) => ...
ParseOk ==
    /\ pc = "check"
    /\ trim(input_buffer) # <<>>
    /\ from_str(trim(input_buffer)).ok
    /\ input_data' = from_str(trim(input_buffer)).val
    /\ decoded' = TRUE
    /\ pc' = "log_input"
    /\ UNCHANGED <<stdin, stdout_full, input_buffer, parse_err, elapsed_us,
                   output_data, stdout_buf, stdout, stderr, exit_code,
                   processed>>

\* ... eprintln!("Processing input: {}", serde_json::to_string(&data)...)
\* The source has no Serialize for InputData, which to_string(&data) needs:
\* the line logged is the one the specification describes, the parsed
\* document re-encoded.
LogInput ==
    /\ pc = "log_input"
    /\ Eprintln(Format("Processing input: ", SerializeInputData(input_data)))
    /\ pc' = "process"
    /\ UNCHANGED <<stdin, stdout_full, input_buffer, input_data, parse_err,
                   elapsed_us, output_data, stdout_buf, stdout, exit_code,
                   decoded, processed>>

\* ... Err(e) => { ... print!(...)
ParseErr ==
    /\ pc = "check"
    /\ trim(input_buffer) # <<>>
    /\ ~from_str(trim(input_buffer)).ok
    /\ parse_err' = Some(from_str(trim(input_buffer)).err)
    /\ print(SerializeErrorResponse(create_error_response(
                 InvalidJsonMessage(parse_err'.v))),
             ErrorDocumentBytes(InvalidJsonMessageBytes(trim(input_buffer))))
    /\ decoded' = TRUE
    /\ pc' = "err_flush"
    /\ UNCHANGED <<stdin, stdout_full, input_buffer, input_data, elapsed_us,
                   output_data, stderr, exit_code, processed>>

\* ... Err(e) => { ... print!(...) panics
ParseErrPrintPanics ==
    /\ pc = "check"
    /\ trim(input_buffer) # <<>>
    /\ ~from_str(trim(input_buffer)).ok
    /\ parse_err' = Some(from_str(trim(input_buffer)).err)
    /\ PrintPanics(ErrorDocumentBytes(
                       InvalidJsonMessageBytes(trim(input_buffer))))
    /\ decoded' = TRUE
    /\ UNCHANGED <<stdin, stdout_full, input_buffer, input_data, elapsed_us,
                   output_data, stdout_buf, stdout, processed>>

\* ... io::stdout().flush()?
FlushParseErr ==
    /\ pc = "err_flush"
    /\ Flush
    /\ pc' = "err_log"
    /\ UNCHANGED <<stdin, stdout_full, input_buffer, input_data, parse_err,
                   elapsed_us, output_data, stderr, exit_code, decoded,
                   processed>>

\* ... io::stdout().flush()? fails and `?` returns the error from main: the
\* ErrorDocument stays in the buffer, and what follows the flush is not run.
FlushParseErrFails ==
    /\ pc = "err_flush"
    /\ stdout_full
    /\ ReturnErr(STDOUT_ERROR)
    /\ UNCHANGED <<stdin, stdout_full, input_buffer, input_data, parse_err,
                   elapsed_us, output_data, stdout_buf, stdout, decoded,
                   processed>>

\* Variant of LogParseErr that logs no detail.
LogParseErrWithoutDetail ==
    /\ pc = "err_log"
    /\ Eprintln(<<"JSON parse error">>)
    /\ pc' = "err_exit"
    /\ UNCHANGED <<stdin, stdout_full, input_buffer, input_data, parse_err,
                   elapsed_us, output_data, stdout_buf, stdout, exit_code,
                   decoded, processed>>

\* ... eprintln!("JSON parse error: {}", e)
LogParseErr ==
    /\ pc = "err_log"
    /\ Eprintln(Format("JSON parse error: ", parse_err.v))
    /\ pc' = "err_exit"
    /\ UNCHANGED <<stdin, stdout_full, input_buffer, input_data, parse_err,
                   elapsed_us, output_data, stdout_buf, stdout, exit_code,
                   decoded, processed>>

\* Variant of ExitParseErr that exits with status 0.
ExitParseErrZero ==
    /\ pc = "err_exit"
    /\ exit_code' = Some(0)
    /\ pc' = "done"
    /\ UNCHANGED <<stdin, stdout_full, input_buffer, input_data, parse_err,
                   elapsed_us, output_data, stdout_buf, stdout, stderr,
                   decoded, processed>>

\* ... std::process::exit(1) }
ExitParseErr ==
    /\ pc = "err_exit"
    /\ exit_code' = Some(1)
    /\ pc' = "done"
    /\ UNCHANGED <<stdin, stdout_full, input_buffer, input_data, parse_err,
                   elapsed_us, output_data, stdout_buf, stdout, stderr,
                   decoded, processed>>

\* let output_data = process_request(input_data)
ProcessRequest ==
    /\ pc = "process"
    /\ \E us \in ElapsedChoices :
          /\ elapsed_us' = us
          /\ output_data' = Some(process_request(input_data, us))
    /\ processed' = TRUE
    /\ pc' = "serialize"
    /\ UNCHANGED <<stdin, stdout_full, input_buffer, input_data, parse_err,
                   stdout_buf, stdout, stderr, exit_code, decoded>>

\* match serde_json::to_string(&output_data) { Ok(json_output) => print!(...)
\* The Err arm is dead code: serializing an OutputData to a String cannot
\* fail (its strings are UTF-8, its map keys are field names, and a
\* non-finite f64 is written as null).
WriteOutput ==
    /\ pc = "serialize"
    /\ print(SerializeOutputData(output_data.v),
             SuccessDocumentBytes(output_data.v))
    /\ pc' = "ok_flush"
    /\ UNCHANGED <<stdin, stdout_full, input_buffer, input_data, parse_err,
                   elapsed_us, output_data, stderr, exit_code, decoded,
                   processed>>

\* ... Ok(json_output) => print!(...) panics
WriteOutputPrintPanics ==
    /\ pc = "serialize"
    /\ PrintPanics(SuccessDocumentBytes(output_data.v))
    /\ UNCHANGED <<stdin, stdout_full, input_buffer, input_data, parse_err,
                   elapsed_us, output_data, stdout_buf, stdout, decoded,
                   processed>>

\* Variant of FlushOutput without the flush.
FlushOutputSkipped ==
    /\ pc = "ok_flush"
    /\ pc' = "ok_log"
    /\ UNCHANGED <<stdin, stdout_full, input_buffer, input_data, parse_err,
                   elapsed_us, output_data, stdout_buf, stdout, stderr,
                   exit_code, decoded, processed>>

\* ... io::stdout().flush()?
FlushOutput ==
    /\ pc = "ok_flush"
    /\ Flush
    /\ pc' = "ok_log"
    /\ UNCHANGED <<stdin, stdout_full, input_buffer, input_data, parse_err,
                   elapsed_us, output_data, stderr, exit_code, decoded,
                   processed>>

\* ... io::stdout().flush()? fails and `?` returns the error from main: the
\* SuccessDocument stays in the buffer, and what follows the flush is not run.
FlushOutputFails ==
    /\ pc = "ok_flush"
    /\ stdout_full
    /\ ReturnErr(STDOUT_ERROR)
    /\ UNCHANGED <<stdin, stdout_full, input_buffer, input_data, parse_err,
                   elapsed_us, output_data, stdout_buf, stdout, decoded,
                   processed>>

\* ... eprintln!("Processing completed successfully")
LogSuccess ==
    /\ pc = "ok_log"
    /\ Eprintln(<<"Processing completed successfully">>)
    /\ pc' = "return"
    /\ UNCHANGED <<stdin, stdout_full, input_buffer, input_data, parse_err,
                   elapsed_us, output_data, stdout_buf, stdout, exit_code,
                   decoded, processed>>

\* Ok(())
ReturnOk ==
    /\ pc = "return"
    /\ exit_code' = Some(0)
    /\ pc' = "done"
    /\ UNCHANGED <<stdin, stdout_full, input_buffer, input_data, parse_err,
                   elapsed_us, output_data, stdout_buf, stdout, stderr,
                   decoded, processed>>

Next ==
    \/ ReadOk
    \/ ReadErr
    \/ EmptyInput
    \/ FlushEmpty
    \/ FlushEmptyFails
    \/ ExitEmpty
    \/ ParseOk
    \/ LogInput
    \/ ParseErr
    \/ ParseErrPrintPanics
    \/ FlushParseErr
    \/ FlushParseErrFails
    \/ LogParseErr
    \/ ExitParseErr
    \/ ProcessRequest
    \/ WriteOutput
    \/ WriteOutputPrintPanics
    \/ FlushOutput
    \/ FlushOutputFails
    \/ LogSuccess
    \/ ReturnOk

Spec == Init /\ [][Next]_vars

----------------------------------------------------------------------------
(* Vocabulary of the properties *)

Terminated == pc = "done"

\* Every document the run has written to standard output so far, flushed
\* or still buffered, in order.
Written == stdout \o stdout_buf

\* The value of member `key` of a JSON object.
Member(doc, key) ==
    LET i == CHOOSE i \in 1..Len(doc.v) : doc.v[i][1] = key
    IN  doc.v[i][2]

HasMember(doc, key) == \E i \in 1..Len(doc.v) : doc.v[i][1] = key

IsSuccessDocument(doc) ==
    /\ doc.t = "object"
    /\ HasMember(doc, "result")
    /\ HasMember(doc, "mentat_meta")
    /\ ~HasMember(doc, "error")

IsErrorDocument(doc) ==
    /\ doc.t = "object"
    /\ HasMember(doc, "error")
    /\ HasMember(doc, "mentat_meta")
    /\ ~HasMember(doc, "result")

Metric(doc, key) == Member(Member(doc, "mentat_meta"), key)

\* The number of whitespace-delimited tokens of S: the positions where a
\* token starts.
WhitespaceTokens(S) ==
    Cardinality({i \in 1..Len(S) :
                    /\ ~IsWhitespace(S[i])
                    /\ (i = 1 \/ IsWhitespace(S[i - 1]))})

AllWhitespace(s) == \A i \in 1..Len(s) : IsWhitespace(s[i])

\* Standard input is zero bytes or whitespace only.
BlankStdin == IsUtf8(stdin) /\ AllWhitespace(stdin)

SUCCESS_LINE == <<"Processing completed successfully">>

\* print! has panicked.
PrintPanicked == Terminated /\ exit_code = Some(PANIC_EXIT_CODE)

\* A flush of standard output has failed, and main has returned its error.
FlushFailed ==
    /\ Terminated
    /\ stdout_buf # <<>>
    /\ stderr[Len(stderr)] = <<"Error: ", STDOUT_ERROR>>

----------------------------------------------------------------------------
(* Properties *)

\* The one document written to standard output is a SuccessDocument whose
\* result is "Processed: " followed by S and whose tokens_input is the
\* number of whitespace-delimited tokens of S.
SuccessDocumentWrittenFor(S) ==
    /\ Len(Written) = 1
    /\ IsSuccessDocument(Written[1])
    /\ Member(Written[1], "result") = JStr(PROCESSED_PREFIX \o S)
    /\ Metric(Written[1], "tokens_input") = JNum(WhitespaceTokens(S))
    /\ (S = <<>> => Metric(Written[1], "tokens_input") = JNum(0))

\* C1 (as stated): when the trimmed input decodes to an InputData with
\* text = S (S may be empty), the one document written to standard output
\* is a SuccessDocument whose result is "Processed: " followed by S and
\* whose tokens_input is the number of whitespace-delimited tokens of S.
C1_AsStated ==
    (Terminated /\ processed /\ input_data.text.some) =>
        SuccessDocumentWrittenFor(input_data.text.v)

\* C1 (amended): when the trimmed input decodes to an InputData with
\* text = S (S may be empty), the one document written to standard output
\* is a SuccessDocument whose result is "Processed: " followed by S and
\* whose tokens_input is the number of whitespace-delimited tokens of S,
\* unless standard output accepts no byte and that document is of
\* STDOUT_CAPACITY bytes or more: print! then panics, and the run ends with
\* exit code 101 and no document written.
C1_ResultAndTokensInput ==
    (Terminated /\ processed /\ input_data.text.some) =>
        IF /\ stdout_full
           /\ SuccessDocumentBytes(output_data.v).lo >= STDOUT_CAPACITY
        THEN Written = <<>> /\ PrintPanicked
        ELSE SuccessDocumentWrittenFor(input_data.text.v) /\ ~PrintPanicked

C1_Witness ==
    /\ Terminated
    /\ processed
    /\ input_data.text = Some(<<"h", SPACE, "h">>)
    /\ Len(stdout) = 1
    /\ Metric(stdout[1], "tokens_input") = JNum(2)

\* C2: every failure kind ends with an ErrorDocument written to standard
\* output, at least one diagnostic line on standard error, and exit code 1;
\* the empty-input path too emits a diagnostic before it terminates.  (The
\* failures a run can reach are empty input and decode failure.)
C2_FailuresSurfacedIdentically ==
    (Terminated /\ IsUtf8(stdin) /\ ~processed) =>
        /\ Len(Written) = 1
        /\ IsErrorDocument(Written[1])
        /\ Len(stderr) >= 1
        /\ exit_code = Some(1)

\* C3: when standard input is zero bytes or only whitespace, decoding and
\* the transformation never run, and the run ends with exit code 1 and the
\* ErrorDocument "No input received from stdin" on standard output.
C3_BlankInput ==
    BlankStdin =>
        /\ ~decoded
        /\ ~processed
        /\ Terminated =>
            /\ exit_code = Some(1)
            /\ Len(Written) = 1
            /\ IsErrorDocument(Written[1])
            /\ Member(Written[1], "error")
                  = JStr(<<"No input received from stdin">>)

C3_Witness ==
    /\ Terminated
    /\ stdin = <<SPACE, LF, TAB>>
    /\ Len(stdout) = 1

\* The failure description e is on standard error.
LoggedToStderr(e) ==
    \E i \in 1..Len(stderr) : stderr[i][Len(stderr[i])] = e

\* C4 (as stated): when the trimmed input is not empty and fails to decode
\* with description e, the transformation never runs, and the run ends with
\* exit code 1, an ErrorDocument "Invalid JSON input: e" written to standard
\* output and e logged on standard error.
C4_AsStated ==
    (decoded /\ parse_err.some) =>
        /\ trim(stdin) # <<>>
        /\ ~processed
        /\ Terminated =>
            /\ exit_code = Some(1)
            /\ Len(Written) = 1
            /\ IsErrorDocument(Written[1])
            /\ Member(Written[1], "error")
                  = JStr(<<"Invalid JSON input: ", parse_err.v>>)
            /\ LoggedToStderr(parse_err.v)

\* C4 (amended): when the trimmed input is not empty and fails to decode
\* with description e, the transformation never runs, and the run ends with
\* exit code 1 and an ErrorDocument "Invalid JSON input: e" written to
\* standard output; e is logged on standard error when the flush of
\* standard output succeeds, and when it fails the ErrorDocument stays
\* unflushed and the flush error is reported instead of e.  The exception
\* is an ErrorDocument of STDOUT_CAPACITY bytes or more (e holds a long
\* string of the input) on a standard output that accepts no byte: print!
\* then panics, and the run ends with exit code 101, no document written
\* and e not logged.
C4_DecodeFailure ==
    (decoded /\ parse_err.some) =>
        /\ trim(stdin) # <<>>
        /\ ~processed
        /\ Terminated =>
            IF /\ stdout_full
               /\ ErrorDocumentBytes(InvalidJsonMessageBytes(trim(stdin))).lo
                     >= STDOUT_CAPACITY
            THEN /\ PrintPanicked
                 /\ Written = <<>>
                 /\ ~LoggedToStderr(parse_err.v)
            ELSE /\ exit_code = Some(1)
                 /\ Len(Written) = 1
                 /\ IsErrorDocument(Written[1])
                 /\ Member(Written[1], "error")
                       = JStr(<<"Invalid JSON input: ", parse_err.v>>)
                 /\ LoggedToStderr(parse_err.v) <=> ~FlushFailed
                 /\ FlushFailed <=> stdout_full

C4_Witness ==
    /\ Terminated
    /\ stdin = <<"n", "o", "t", SPACE, "j", "s", "o", "n">>
    /\ parse_err = Some("ExpectedSomeIdent")
    /\ Len(stdout) = 1
    /\ LoggedToStderr("ExpectedSomeIdent")

\* C5: in every document written to standard output the metrics are all
\* present (SuccessDocument) or all null (ErrorDocument), and model is the
\* fixed identifier in both.
C5_MetaAllOrNothing ==
    \A i \in 1..Len(Written) :
        LET doc == Written[i]
            metrics == {Metric(doc, k) :
                           k \in {"tokens_input", "tokens_output", "seconds"}}
        IN  /\ Metric(doc, "model") = JStr(AGENT_ID)
            /\ IsSuccessDocument(doc) \/ IsErrorDocument(doc)
            /\ IsSuccessDocument(doc) => \A m \in metrics : m.t = "number"
            /\ IsErrorDocument(doc) => \A m \in metrics : m = JNull

C5_Witness ==
    /\ Terminated
    /\ Len(stdout) = 1
    /\ IsErrorDocument(stdout[1])
    /\ Metric(stdout[1], "seconds") = JNull

\* C6 (as stated): every write to standard output is flushed before the
\* process terminates: nothing is left in the buffer past the flush of each
\* path, and a terminated process has no written but unflushed document.
C6_AsStated ==
    /\ Terminated => stdout_buf = <<>>
    /\ pc \in {"empty_exit", "err_log", "err_exit", "ok_log", "return"} =>
          stdout_buf = <<>> /\ Len(stdout) = 1

\* C6 (amended): every write to standard output is followed by a flush
\* before the process terminates.  When the flush succeeds nothing is left
\* in the buffer past it, on each path; a process terminates with a written
\* but unflushed document only when the flush has failed, and then exits
\* with code 1 after the flush error is reported on standard error.
C6_FlushedBeforeExit ==
    /\ (Terminated /\ stdout_buf # <<>>) =>
          /\ stdout_full
          /\ FlushFailed
          /\ stdout = <<>>
          /\ exit_code = Some(1)
    /\ (Terminated /\ ~stdout_full) => stdout_buf = <<>>
    /\ pc \in {"empty_exit", "err_log", "err_exit", "ok_log", "return"} =>
          stdout_buf = <<>> /\ Len(stdout) = 1

C6_Witness ==
    /\ Terminated
    /\ exit_code = Some(0)
    /\ Len(stdout) = 1
    /\ stdout_buf = <<>>

\* The input decoded to an InputData without text, and the run has ended.
EndedWithoutText ==
    Terminated /\ decoded /\ ~parse_err.some /\ ~input_data.text.some

\* The one document written is the SuccessDocument of the empty text:
\* result "Processed: ", tokens_input 0 and tokens_output 1.
EmptyTextDocumentWritten ==
    /\ processed
    /\ Len(Written) = 1
    /\ IsSuccessDocument(Written[1])
    /\ Member(Written[1], "result") = JStr(PROCESSED_PREFIX)
    /\ Metric(Written[1], "tokens_input") = JNum(0)
    /\ Metric(Written[1], "tokens_output") = JNum(1)

\* C7 (as stated): when the decoded InputData has no text (input {}), the
\* text is the empty string: the run succeeds (exit code 0) with result
\* "Processed: ", tokens_input 0 and tokens_output 1.
C7_AsStated ==
    EndedWithoutText => (exit_code = Some(0) /\ EmptyTextDocumentWritten)

\* C7 (amended): when the decoded InputData has no text (input {}), the
\* text is the empty string: the one document the run writes is a
\* SuccessDocument with result "Processed: ", tokens_input 0 and
\* tokens_output 1, and the run succeeds (exit code 0) exactly when the
\* flush of that document succeeds; when the flush fails the document
\* stays unflushed and the exit code is 1.
C7_MissingText ==
    EndedWithoutText =>
        /\ EmptyTextDocumentWritten
        /\ exit_code = Some(0) <=> ~stdout_full
        /\ exit_code = Some(0) <=> stdout = Written
        /\ stdout_full => (exit_code = Some(1) /\ FlushFailed)

C7_Witness ==
    /\ Terminated
    /\ stdin = <<"{", "}">>
    /\ exit_code = Some(0)
    /\ Len(stdout) = 1

\* C8: the tokens_input computed for a text L + S + R, with L and R made of
\* whitespace only, is the tokens_input computed for S; S may be empty.
C8_TokenCountIgnoresPadding ==
    (processed /\ input_data.text.some) =>
        LET T == input_data.text.v
        IN  \A i \in 0..Len(T) : \A j \in i..Len(T) :
                (AllWhitespace(SubSeq(T, 1, i))
                    /\ AllWhitespace(SubSeq(T, j + 1, Len(T)))) =>
                output_data.v.mentat_meta.tokens_input
                    = TokenCount(SubSeq(T, i + 1, j))

C8_Witness ==
    /\ processed
    /\ input_data.text = Some(<<LF, NBSP, SPACE>>)
    /\ output_data.v.mentat_meta.tokens_input = Some(0)

\* The parsed document is logged before the transformation runs.
ParsedDocumentLoggedFirst ==
    processed =>
        /\ Len(stderr) >= 1
        /\ stderr[1] = <<"Processing input: ",
                         SerializeInputData(input_data)>>

\* The SuccessDocument is written and flushed before the success
\* diagnostic is logged.
SuccessLogged == \E i \in 1..Len(stderr) : stderr[i] = SUCCESS_LINE

FlushedBeforeSuccessLine ==
    SuccessLogged =>
        /\ stdout_buf = <<>>
        /\ stdout = <<SerializeOutputData(output_data.v)>>

\* A SuccessDocument and no ErrorDocument is among the documents docs.
SuccessDocumentOnly(docs) ==
    /\ \E i \in 1..Len(docs) : IsSuccessDocument(docs[i])
    /\ \A i \in 1..Len(docs) : ~IsErrorDocument(docs[i])

\* C9 (as stated): on the success path the parsed document is logged
\* before the transformation runs, the SuccessDocument is written and
\* flushed before the success diagnostic is logged, and the exit code is 0
\* exactly when a SuccessDocument and no ErrorDocument was written to
\* standard output.
C9_AsStated ==
    /\ ParsedDocumentLoggedFirst
    /\ FlushedBeforeSuccessLine
    /\ Terminated => (exit_code = Some(0) <=> SuccessDocumentOnly(Written))

\* C9 (amended): on the success path the parsed document is logged before
\* the transformation runs, the SuccessDocument is written and flushed
\* before the success diagnostic is logged, and the exit code is 0 exactly
\* when a SuccessDocument and no ErrorDocument was written to standard
\* output and flushed; a run whose SuccessDocument cannot be flushed exits
\* with code 1 without the success diagnostic.
C9_SuccessPathOrder ==
    /\ ParsedDocumentLoggedFirst
    /\ FlushedBeforeSuccessLine
    /\ Terminated =>
          /\ exit_code = Some(0) <=>
                (SuccessDocumentOnly(Written) /\ stdout_buf = <<>>)
          /\ exit_code = Some(0) <=> SuccessLogged
          /\ (SuccessDocumentOnly(Written) /\ stdout_buf # <<>>) =>
                (exit_code = Some(1) /\ FlushFailed)

C9_Witness ==
    /\ Terminated
    /\ exit_code = Some(0)
    /\ Len(stderr) = 2
    /\ stderr[2] = SUCCESS_LINE
    /\ IsSuccessDocument(stdout[1])

\* C10: every run that terminates has written exactly one JSON document to
\* standard output, on every exit, the one taken when reading standard
\* input fails and the one taken when a flush fails included.
C10_ExactlyOneDocument ==
    Terminated => Len(Written) = 1

=============================================================================
